---------------------------- MODULE Spec2Model ----------------------------
(***************************************************************************)
(* Chunked transcription pipeline of the YouTube auto transcriber.         *)
(*                                                                         *)
(* The background context (UniversalTranscriptionService and its message   *)
(* listener, src/background.ts) and the capturer (content script,          *)
(* src/unnamed/part_001, second listing) are two single-threaded event     *)
(* loops that exchange asynchronous messages.  Every action below is one   *)
(* run-to-completion step of one of them: a message handler, or the        *)
(* continuation of an async function after one of its awaits.              *)
(***************************************************************************)
EXTENDS Integers, Sequences, FiniteSets, TLC

(***************************************************************************)
(* Bounds of the model.                                                    *)
(***************************************************************************)
MaxStarts == 1      \* start commands the popup issues
MaxStops  == 1      \* stop commands issued (popup button, in-page indicator)
MaxChunks == 2      \* non-empty data events the capturer's recorders produce
MaxInFlight == 5    \* recognition calls in flight when the burst specification begins

(***************************************************************************)
(* Program constants.                                                      *)
(***************************************************************************)
AutoSaveEvery == 5  \* background.ts:313 "Auto-save every 5 successful chunks"
MsPerSecond == 1000 \* background.ts:542
SecPerMinute == 60  \* background.ts:543
MinPerHour == 60    \* background.ts:544
PadWidth == 2       \* background.ts:546 padStart(2, '0')

(***************************************************************************)
(* Environment values.                                                     *)
(***************************************************************************)
T0 == 1000          \* Date.now() of the first observed instant (> 0), in ms
TimesliceMs == 10000 \* mediaRecorder.start(10000) (part_001:762)
Tabs == {1, 2}      \* browser tabs that run the content script
NoTab == 0          \* currentTabId === null (background.ts:22)
\* the tab whose capturer is modelled step by step
CapTab == CHOOSE t \in Tabs : \A u \in Tabs : t <= u

(***************************************************************************)
(* Strings are sequences of one-character (or one-token) strings, so that  *)
(* trimming, padding and formatting are computed, not assumed.             *)
(***************************************************************************)
DigitChars == <<"0", "1", "2", "3", "4", "5", "6", "7", "8", "9">>

RECURSIVE ToStr(_)
\* Number.prototype.toString() of a non-negative integer
ToStr(n) ==
    IF n < 10 THEN <<DigitChars[n + 1]>>
    ELSE ToStr(n \div 10) \o <<DigitChars[(n % 10) + 1]>>

RECURSIVE padStart(_, _, _)
\* String.prototype.padStart(width, fill)
padStart(s, width, fill) ==
    IF Len(s) >= width THEN s ELSE padStart(<<fill>> \o s, width, fill)

RECURSIVE TrimLeft(_)
TrimLeft(s) ==
    IF s # <<>> /\ Head(s) = " " THEN TrimLeft(Tail(s)) ELSE s

RECURSIVE TrimRight(_)
TrimRight(s) ==
    IF s # <<>> /\ s[Len(s)] = " " THEN TrimRight(SubSeq(s, 1, Len(s) - 1)) ELSE s

\* String.prototype.trim()
Trim(s) == TrimRight(TrimLeft(s))

\* getRelativeTimestamp(): HH:MM:SS elapsed since recordingStartTime
getRelativeTimestamp(startTime, nowMs) ==
    IF startTime = 0 THEN <<"0", "0", ":", "0", "0", ":", "0", "0">>
    ELSE LET elapsed == nowMs - startTime
             seconds == elapsed \div MsPerSecond
             minutes == seconds \div SecPerMinute
             hours   == minutes \div MinPerHour
         IN  padStart(ToStr(hours), PadWidth, "0") \o <<":">>
             \o padStart(ToStr(minutes % MinPerHour), PadWidth, "0") \o <<":">>
             \o padStart(ToStr(seconds % SecPerMinute), PadWidth, "0")

\* transcripts the recognizer may return in alternatives[0].transcript
Transcripts == { <<>>, <<" ">>, <<" ", "h", "i", " ">> }


\* '='.repeat(60)
RuleWidth == 60     \* background.ts:585

RECURSIVE repeat(_, _)
\* String.prototype.repeat(count)
repeat(c, count) == IF count = 0 THEN <<>> ELSE <<c>> \o repeat(c, count - 1)

\* (variant: only the first entry is written)
EntryLinesFirstOnly(data) ==
    IF data = <<>> THEN <<>>
    ELSE << <<"[">> \o Head(data).timestamp \o <<"]: ">> \o Head(data).text, <<>> >>

RECURSIVE EntryLines(_)
\* transcriptionData.forEach: "[timestamp]: text" and a blank line per entry
EntryLines(data) ==
    IF data = <<>> THEN <<>>
    ELSE << <<"[">> \o Head(data).timestamp \o <<"]: ">> \o Head(data).text, <<>> >>
         \o EntryLines(Tail(data))

\* the five header lines and the rule of formatTranscription()
TranscriptHeader(data, startTime, nowMs) ==
    << <<"YouTube Video Transcription">>,
       <<"Generated: ">> \o ToStr(nowMs),
       <<"Total Segments: ">> \o ToStr(Len(data)),
       <<"Session Duration: ">> \o getRelativeTimestamp(startTime, nowMs),
       <<>>,
       repeat("=", RuleWidth),
       <<>> >>

\* the body written when there is no entry
Placeholder ==
    << <<"No transcription data captured.">>,
       <<"This could be due to:">>,
       <<"- Silent or very quiet audio">>,
       <<"- Audio format not supported by Speech-to-Text API">>,
       <<"- Network issues with the transcription service">>,
       <<"- YouTube video without clear speech">>,
       <<"- Audio encoding mismatch (try different browsers)">> >>

\* (variant: without the branch for an empty transcriptionData)
formatWithoutPlaceholder(data, startTime, nowMs) ==
    TranscriptHeader(data, startTime, nowMs)
        \o << <<"--- TRANSCRIPT ---">>, <<>> >> \o EntryLines(data)

\* formatTranscription(): the text artifact as a sequence of lines
formatTranscription(data, startTime, nowMs) ==
    IF Len(data) = 0
    THEN TranscriptHeader(data, startTime, nowMs) \o Placeholder
    ELSE TranscriptHeader(data, startTime, nowMs)
            \o << <<"--- TRANSCRIPT ---">>, <<>> >> \o EntryLines(data)

(***************************************************************************)
(* State.                                                                  *)
(***************************************************************************)
VARIABLES
    \* UniversalTranscriptionService fields (background.ts:14-22)
    isRecording, chunkCount, transcriptionData, recordingStartTime,
    currentTabId, audioBufferLen,
    \* extension storage and wall clock
    apiKey, now,
    \* suspended async calls of the background context
    startTasks,     \* startRecording() calls waiting on an await (overlap:
                    \* another call was already waiting when this one began)
    chunkTasks,     \* processChunkWithContext() calls waiting on an await
    saveTasks,      \* saveTranscriptionFile() calls waiting for getVideoTitle()
    \* messages in flight
    toTab,          \* chrome.tabs.sendMessage: background -> content scripts
    toBg,           \* chrome.runtime.sendMessage: capturer -> background
    \* capturer (content script of CapTab)
    capPending,     \* startScreenCapture() calls waiting for getDisplayMedia
    mediaRecorder,  \* the variable: "null", "recording" or "inactive"
    audioStream,    \* the variable is non-null
    liveRecorders,  \* MediaRecorder objects still recording (referenced or not)
    flushing,       \* stopped recorders whose final dataavailable is pending
    converting,     \* ondataavailable calls waiting for blobToBase64()
    stopSeen,       \* a 'stopRecording' was handled and no 'startRecording' since
    \* bookkeeping of the model (not program state)
    budget,         \* commands and data events the environment may still issue
    sess,           \* number of sessions opened so far (resets of line 104-107)
    entryOrigin,    \* for each entry: the chunk whose recognition produced it
    out             \* what the step taken last emitted: events, messages,
                    \* requests, replies and selected console lines

svcVars == <<isRecording, chunkCount, transcriptionData, recordingStartTime,
             currentTabId, audioBufferLen>>
envVars == <<apiKey, now>>
taskVars == <<startTasks, chunkTasks, saveTasks>>
chanVars == <<toTab, toBg>>
capVars == <<capPending, mediaRecorder, audioStream, liveRecorders, flushing,
            converting, stopSeen>>
ghostVars == <<budget, sess, entryOrigin, out>>
vars == <<svcVars, envVars, taskVars, chanVars, capVars, ghostVars>>

(***************************************************************************)
(* Emissions of a step.  ch is the channel: "runtime" (events to the popup,*)
(* the Session Control surface), "tab" (message to a content script),      *)
(* "notify" (chrome.notifications), "download", "badge", "reply"           *)
(* (sendResponse), "fetch" (recognizer request), "save"                    *)
(* (saveTranscriptionFile entered), "log" (console).                       *)
(***************************************************************************)
Emit(ch, type) ==
    [ch |-> ch, type |-> type, num |-> 0, flag |-> FALSE, text |-> <<>>,
     body |-> <<>>]

EmitFlag(ch, type, flag) == [Emit(ch, type) EXCEPT !.flag = flag]

EmitNum(ch, type, num) == [Emit(ch, type) EXCEPT !.num = num]

\* showNotification(title, message)
showNotification(title) == Emit("notify", title)

\* chrome.runtime.sendMessage({type: 'recordingState', isRecording})
RecordingStateEvent(flag) == EmitFlag("runtime", "recordingState", flag)

\* chrome.runtime.sendMessage({type: 'recordingError', error})
RecordingErrorEvent(msg) == [Emit("runtime", "recordingError") EXCEPT !.text = <<msg>>]

TabMsg(tab, type, flag) == [tab |-> tab, type |-> type, flag |-> flag]

\* sendMessageToTab(tabId, message): the queue of messages the modelled capturer
\* will handle; messages for other tabs reach content scripts outside the model,
\* and 'ping' / 'recordingState' do not touch the capture state
Enqueue(queue, tab, type) ==
    IF tab = CapTab /\ type \in {"startRecording", "stopRecording"}
    THEN Append(queue, TabMsg(tab, type, FALSE))
    ELSE queue

\* sendMessageToTab(tabId, message): the emission record of the send
SentToTab(tab, type, flag) == [EmitFlag("tab", type, flag) EXCEPT !.num = tab]

\* what the environment may still do: start and stop commands, recorder data
\* events with data; made counts the data events so far and finals the stop
\* commands that went past the early return; shapes tells whether
\* the chunk messages are those of the capturer modelled here ("own") or those
\* any build of the content script, or any other sender, may post ("any")
Allow(starts, stops, chunks) ==
    [starts |-> starts, stops |-> stops, chunks |-> chunks, made |-> 0,
     finals |-> 0, shapes |-> "own"]

\* the state after construction; b is what the environment is allowed to do
InitWith(b) ==
    /\ isRecording = FALSE
    /\ chunkCount = 0
    /\ transcriptionData = <<>>
    /\ recordingStartTime = 0
    /\ currentTabId = NoTab
    /\ audioBufferLen = 0
    /\ apiKey \in BOOLEAN
    /\ now = T0
    /\ startTasks = {}
    /\ chunkTasks = {}
    /\ saveTasks = <<>>
    /\ toTab = <<>>
    /\ toBg = <<>>
    /\ capPending = 0
    /\ mediaRecorder = "null"
    /\ audioStream = FALSE
    /\ liveRecorders = 0
    /\ flushing = 0
    /\ converting = {}
    /\ stopSeen = FALSE
    /\ budget = b
    /\ sess = 0
    /\ entryOrigin = <<>>
    /\ out = <<>>

Init == InitWith(Allow(MaxStarts, MaxStops, MaxChunks))


(***************************************************************************)
(* Helpers shared by the handlers.                                         *)
(***************************************************************************)
Spend(field) == [budget EXCEPT ![field] = @ - 1]

\* saveTranscriptionFile() up to its await: the content is formatted and the
\* title lookup for currentTabId is issued; cont names what runs after it
SaveTask(data, cont) ==
    [content |-> formatTranscription(data, recordingStartTime, now),
     entries |-> Len(data), tab |-> currentTabId, cont |-> cont]

SaveEntered(cont) == Emit("save", cont)

\* handleRecordingError(error): the emissions (isRecording is set by the caller's
\* conjunct HandleRecordingErrorFlag)
handleRecordingError(msg) == <<RecordingErrorEvent(msg), showNotification("Recording Error")>>

\* this.isRecording = false in handleRecordingError
HandleRecordingErrorFlag == FALSE

(***************************************************************************)
(* Session control: start.                                                 *)
(***************************************************************************)
\* startRecording(tabId) up to its first await: TRUE iff the call goes on
StartAccepted == ~isRecording

\* a name for a new startRecording() call
FreshId == CHOOSE i \in 1..(Cardinality(startTasks) + 1) :
              /\ \A t \in startTasks : t.id # i
              /\ \A j \in 1..(i - 1) : \E t \in startTasks : t.id = j

\* onMessage 'startRecording': pick the active YouTube tab, else any YouTube
\* tab, else report failure; startRecording() is called and not awaited
StartCmd(tab) ==
    /\ budget.starts > 0
    /\ budget' = Spend("starts")
    /\ IF tab = NoTab
       THEN /\ out' = <<Emit("reply", "startFailed")>>
            /\ startTasks' = startTasks
       ELSE /\ out' = <<EmitNum("badge", "REC", tab), EmitFlag("reply", "startOk", TRUE)>>
            /\ IF StartAccepted
               THEN /\ startTasks' = startTasks \cup
                         {[id |-> FreshId, tab |-> tab, pc |-> "key",
                           overlap |-> startTasks # {}]}
               ELSE /\ startTasks' = startTasks
    /\ UNCHANGED <<svcVars, envVars, chunkTasks, saveTasks, chanVars, capVars,
                   sess, entryOrigin>>

\* startRecording after `await storage.get("google_api_key")`
StartGotKey(t) ==
    /\ t \in startTasks /\ t.pc = "key"
    /\ IF ~apiKey
       THEN /\ out' = <<showNotification("API Key Required")>>
            /\ startTasks' = startTasks \ {t}
            /\ currentTabId' = currentTabId
       ELSE /\ out' = <<>>
            /\ currentTabId' = t.tab
            /\ startTasks' = (startTasks \ {t}) \cup {[t EXCEPT !.pc = "tab"]}
    /\ UNCHANGED <<isRecording, chunkCount, transcriptionData, recordingStartTime,
                   audioBufferLen, envVars, chunkTasks, saveTasks, chanVars,
                   capVars, budget, sess, entryOrigin>>

\* startRecording after `await chrome.tabs.get(tabId)`; eligible = the tab
\* exists and its url includes 'youtube.com'
StartGotTab(t, eligible) ==
    /\ t \in startTasks /\ t.pc = "tab"
    /\ IF eligible
       THEN /\ out' = <<SentToTab(t.tab, "ping", FALSE)>>
            /\ startTasks' = (startTasks \ {t}) \cup {[t EXCEPT !.pc = "ping"]}
            /\ isRecording' = isRecording
       ELSE /\ out' = handleRecordingError("Selected tab is not a YouTube page")
            /\ startTasks' = startTasks \ {t}
            /\ isRecording' = HandleRecordingErrorFlag
    /\ UNCHANGED <<chunkCount, transcriptionData, recordingStartTime, currentTabId,
                   audioBufferLen, envVars, chunkTasks, saveTasks, chanVars,
                   capVars, budget, sess, entryOrigin>>

\* the emissions of lines 111-117 of a start that passed validation
StartEmissions(tab) ==
    <<SentToTab(tab, "startRecording", FALSE), RecordingStateEvent(TRUE),
      showNotification("Recording Started")>>

\* this.isRecording = true (background.ts:105)
StartSetsRecording == TRUE

\* startRecording after the ping round trip; reachable = the content script
\* answered {success: true}
StartPinged(t, reachable) ==
    /\ t \in startTasks /\ t.pc = "ping"
    /\ startTasks' = startTasks \ {t}
    /\ IF reachable
       THEN /\ recordingStartTime' = now
            /\ isRecording' = StartSetsRecording
            /\ transcriptionData' = <<>>
            /\ entryOrigin' = <<>>
            /\ chunkCount' = 0
            /\ sess' = sess + 1
            /\ toTab' = Enqueue(toTab, t.tab, "startRecording")
            /\ out' = StartEmissions(t.tab)
       ELSE /\ isRecording' = HandleRecordingErrorFlag
            /\ out' = handleRecordingError("Content script is not reachable")
            /\ UNCHANGED <<recordingStartTime, transcriptionData, entryOrigin,
                           chunkCount, sess, toTab>>
    /\ UNCHANGED <<currentTabId, audioBufferLen, envVars, chunkTasks, saveTasks,
                   toBg, capVars, budget>>


(***************************************************************************)
(* Session control: stop, and the save that follows it.                    *)
(***************************************************************************)
\* (variant: stopRecording() without its early return)
StopNeverNoop == FALSE

\* stopRecording() early return: `if (!this.isRecording) return`
StopIsNoop == ~isRecording

\* (variant: stopRecording() without the assignment of the flag)
StopLeavesRecording == isRecording

\* this.isRecording = false of stopRecording()
StopSetsRecording == FALSE

\* stopRecording() up to `await this.saveTranscriptionFile()`; cont names the
\* caller's continuation ("stopCmd": the message handler).  The recognition
\* calls pending at this moment are marked, for the record only
StopRecordingBody(cont, replyOut) ==
    IF StopIsNoop
    THEN /\ out' = <<Emit("log", "Not recording, returning early")>> \o replyOut
         /\ UNCHANGED <<isRecording, saveTasks, toTab, chunkTasks>>
    ELSE /\ isRecording' = StopSetsRecording
         /\ chunkTasks' = {[t EXCEPT !.inFlightAtStop = TRUE] : t \in chunkTasks}
         /\ toTab' = IF currentTabId # NoTab
                     THEN Enqueue(toTab, currentTabId, "stopRecording")
                     ELSE toTab
         /\ saveTasks' = Append(saveTasks, SaveTask(transcriptionData, cont))
         /\ out' = (IF currentTabId # NoTab
                    THEN <<SentToTab(currentTabId, "stopRecording", FALSE)>>
                    ELSE <<>>) \o <<SaveEntered(cont)>>

\* onMessage 'stopRecording' (popup button or in-page indicator)
StopCmd ==
    /\ budget.stops > 0
    /\ budget' = [Spend("stops") EXCEPT !.finals = IF StopIsNoop THEN @ ELSE @ + 1]
    /\ StopRecordingBody("stopCmd",
                         <<Emit("badge", ""), EmitFlag("reply", "stopOk", FALSE)>>)
    /\ UNCHANGED <<chunkCount, transcriptionData, recordingStartTime, currentTabId,
                   audioBufferLen, envVars, startTasks, toBg, capVars, sess,
                   entryOrigin>>

\* what runs after saveTranscriptionFile() returns to its caller
AfterSave(cont) ==
    IF cont = "stopCmd"
    THEN (IF currentTabId # NoTab
          THEN <<SentToTab(currentTabId, "recordingState", FALSE)>>
          ELSE <<>>)
         \o <<RecordingStateEvent(FALSE), showNotification("Recording Stopped"),
              Emit("badge", ""), EmitFlag("reply", "stopOk", FALSE)>>
    ELSE <<>>

\* filename = `transcript-${videoTitle}-${timestamp}.txt`
Filename(title, nowMs) == <<"transcript-", title, "-">> \o ToStr(nowMs) \o <<".txt">>

\* (variant: fileSaved is sent whether or not the download was invoked)
SaveAnnouncesAnyway(task, downloadOk) ==
    (IF downloadOk
     THEN << [Emit("download", "file") EXCEPT !.body = task.content,
                                             !.num = task.entries] >>
     ELSE <<Emit("log", "Failed to download file")>>)
    \o <<Emit("runtime", "fileSaved")>>

\* saveTranscriptionFile() after `await this.getVideoTitle()`: download, then
\* fileSaved; a throwing download is caught and logged
SaveEmissions(task, downloadOk) ==
    LET title == IF task.tab = NoTab THEN "video" ELSE "title"
    IN  IF downloadOk
        THEN << [Emit("download", "file") EXCEPT !.text = Filename(title, now),
                                                !.body = task.content,
                                                !.num = task.entries],
                [Emit("runtime", "fileSaved") EXCEPT !.text = Filename(title, now)] >>
        ELSE <<Emit("log", "Failed to download file")>>

RemoveAt(seq, i) == SubSeq(seq, 1, i - 1) \o SubSeq(seq, i + 1, Len(seq))

SaveDone(i, downloadOk) ==
    /\ i \in 1..Len(saveTasks)
    /\ saveTasks' = RemoveAt(saveTasks, i)
    /\ out' = SaveEmissions(saveTasks[i], downloadOk) \o AfterSave(saveTasks[i].cont)
    /\ toTab' = IF saveTasks[i].cont = "stopCmd" /\ currentTabId # NoTab
                THEN Enqueue(toTab, currentTabId, "recordingState")
                ELSE toTab
    /\ UNCHANGED <<svcVars, envVars, startTasks, chunkTasks, toBg, capVars,
                   budget, sess, entryOrigin>>


(***************************************************************************)
(* Recognition pipeline: processWebMChunk / processChunkWithContext.       *)
(***************************************************************************)
\* recognizer request configurations: <<encoding, sampleRateHertz,
\* audioChannelCount, enableSeparateRecognitionPerChannel>>, "-" for a field
\* that is left out; the other fields are the same in every request
PrimaryConfig == <<"WEBM_OPUS", "48000", "2", "false">>       \* background.ts:240-251
VorbisConfig == <<"WEBM_VORBIS", "-", "-", "false">>          \* background.ts:258-264

\* (variant: the retry after an empty result repeats the primary request)
NoRateRetryKeepsRate == PrimaryConfig

NoSampleRateConfig == <<"WEBM_OPUS", "-", "2", "false">>      \* background.ts:334-347

\* (variant: the retry after a channel-count complaint keeps the hint)
RetryKeepsChannelCount == <<"WEBM_OPUS", "-", "2", "-">>

NoChannelConfig == <<"WEBM_OPUS", "-", "-", "-">>             \* background.ts:405-415

\* (variant: the second retry built from the body of the first)
FallbackFromRetryBody == <<"WEBM_OPUS", "-", "-", "-">>

FallbackRateConfig == <<"WEBM_OPUS", "44100", "2", "false">>  \* background.ts:433-446

Fetch(config) == [Emit("fetch", "recognize") EXCEPT !.text = config]

\* outcomes of one fetch of the recognizer, as the code distinguishes them
Response(kind, text, chan, rate) == [kind |-> kind, text |-> text, chan |-> chan, rate |-> rate]

Responses ==
    {Response("throw", <<>>, FALSE, FALSE), Response("noResults", <<>>, FALSE, FALSE)}
    \cup {Response("ok", t, FALSE, FALSE) : t \in Transcripts}
    \cup {Response("error", <<>>, c, r) : c \in BOOLEAN, r \in BOOLEAN}

\* what the code looks for in the error text (background.ts:402, :430)
ErrorText(r) ==
    (IF r.chan THEN <<"audio_channel_count">> ELSE <<>>)
        \o (IF r.rate THEN <<"sample rate">> ELSE <<>>)

\* the console line that tells a response which yields no entry, by the
\* request it answers; the lines of a successful response are printed with
\* the transcript it carries
ResponseLog(pc, r) ==
    CASE r.kind = "throw" -> Emit("log", "Error processing WebM chunk")
      [] r.kind = "error" /\ pc = "primary" ->
            [Emit("log", "Google Speech API error for WebM") EXCEPT !.text = ErrorText(r)]
      [] r.kind = "error" /\ pc = "noRate" -> Emit("log", "No sample rate fallback failed")
      [] r.kind = "error" /\ pc = "noChannel" -> Emit("log", "Retry failed")
      [] r.kind = "error" /\ pc = "rate" -> Emit("log", "Fallback failed")
      [] r.kind = "noResults" /\ pc = "primary" -> Emit("log", "No transcription results")
      [] r.kind = "ok" /\ pc = "primary" ->
            [Emit("log", "Empty transcription result") EXCEPT !.text = r.text]
      [] pc = "noRate" ->
            [Emit("log", "No sample rate fallback response") EXCEPT !.text = r.text]
      [] pc = "noChannel" -> [Emit("log", "Retry response") EXCEPT !.text = r.text]
      [] OTHER -> [Emit("log", "Fallback response") EXCEPT !.text = r.text]

\* (variant: the test without trim())
HasTextUntrimmed(transcript) == Len(transcript) > 0

\* `transcription && transcription.trim().length > 0`
HasText(transcript) == Len(Trim(transcript)) > 0

\* chunkNumber: this.chunkCount, read when the entry is built (background.ts:297)
EntryChunkNumber(task) == chunkCount

\* timestamp of the entry: the parameter captured at arrival (background.ts:294)
EntryTimestamp(task) == task.timestamp

NewEntry(task, transcript) ==
    [timestamp |-> EntryTimestamp(task), text |-> Trim(transcript),
     language |-> "en-US", chunkNumber |-> EntryChunkNumber(task)]

\* (variant: the auto-save test made before the push)
AutoSaveDueBeforePush(data) == (Len(data) - 1) % AutoSaveEvery = 0

\* `this.transcriptionData.length % 5 === 0` after the push
AutoSaveDue(data) == Len(data) % AutoSaveEvery = 0

\* push the entry, emit chunkProcessed, auto-save when due
AppendResult(task, transcript) ==
    LET data == Append(transcriptionData, NewEntry(task, transcript))
    IN  /\ transcriptionData' = data
        /\ entryOrigin' = Append(entryOrigin,
               [sess |-> task.sess, seq |-> task.seq, elapsed |-> task.elapsed])
        /\ IF AutoSaveDue(data)
           THEN /\ saveTasks' = Append(saveTasks, SaveTask(data, "none"))
                /\ out' = << [EmitNum("runtime", "chunkProcessed", chunkCount)
                                 EXCEPT !.text = transcript],
                             SaveEntered("none") >>
           ELSE /\ saveTasks' = saveTasks
                /\ out' = << [EmitNum("runtime", "chunkProcessed", chunkCount)
                                 EXCEPT !.text = transcript] >>

NoAppend(emitted) ==
    /\ out' = emitted
    /\ UNCHANGED <<transcriptionData, entryOrigin, saveTasks>>

\* (variant: a failed recognition ends the session)
ChunkFailureStops == FALSE

\* the recording flag after a step of processChunkWithContext: no branch, the
\* catch included, assigns it
FlagAfterChunk == isRecording

\* processChunkWithContext after `await storage.get(...)` and blobToBase64:
\* without a key the chunk is dropped, else the primary request is sent
ChunkGotKey(t) ==
    /\ t \in chunkTasks /\ t.pc = "key"
    /\ IF ~apiKey
       THEN /\ chunkTasks' = chunkTasks \ {t}
            /\ out' = <<Emit("log", "No API key available")>>
       ELSE /\ chunkTasks' = (chunkTasks \ {t}) \cup
                                {[t EXCEPT !.pc = "primary", !.fetches = 1]}
            /\ out' = <<Fetch(IF t.vorbis THEN VorbisConfig ELSE PrimaryConfig)>>
    /\ isRecording' = FlagAfterChunk
    /\ UNCHANGED <<chunkCount, transcriptionData, recordingStartTime, currentTabId,
                   audioBufferLen, envVars, startTasks, saveTasks, chanVars, capVars,
                   budget, sess, entryOrigin>>

Retry(t, r, pc, alsoRate, config) ==
    /\ chunkTasks' = (chunkTasks \ {t}) \cup
           {[t EXCEPT !.pc = pc, !.fetches = @ + 1, !.alsoRate = alsoRate]}
    /\ NoAppend(<<ResponseLog(t.pc, r), Fetch(config)>>)

Conclude(t) == chunkTasks' = chunkTasks \ {t}

\* a response whose text is appended when it carries any
TakeResult(t, r) ==
    /\ Conclude(t)
    /\ IF r.kind = "ok" /\ HasText(r.text)
       THEN AppendResult(t, r.text)
       ELSE NoAppend(<<ResponseLog(t.pc, r)>>)

\* the response to the primary request (background.ts:276-491)
PrimaryResponse(t, r) ==
    /\ t \in chunkTasks /\ t.pc = "primary" /\ ~t.stalled
    /\ r \in Responses
    /\ CASE r.kind = "noResults" -> Retry(t, r, "noRate", FALSE, NoSampleRateConfig)
         [] r.kind = "error" /\ r.chan -> Retry(t, r, "noChannel", r.rate, NoChannelConfig)
         [] r.kind = "error" /\ ~r.chan /\ r.rate ->
                Retry(t, r, "rate", FALSE, FallbackRateConfig)
         [] OTHER -> TakeResult(t, r)
    /\ isRecording' = FlagAfterChunk
    /\ UNCHANGED <<chunkCount, recordingStartTime, currentTabId, audioBufferLen,
                   envVars, startTasks, chanVars, capVars, budget, sess>>

\* the response to the retry without sampleRateHertz (background.ts:355-393)
NoRateResponse(t, r) ==
    /\ t \in chunkTasks /\ t.pc = "noRate" /\ ~t.stalled
    /\ r \in Responses
    /\ TakeResult(t, r)
    /\ isRecording' = FlagAfterChunk
    /\ UNCHANGED <<chunkCount, recordingStartTime, currentTabId, audioBufferLen,
                   envVars, startTasks, chanVars, capVars, budget, sess>>

\* the response to the retry without audioChannelCount: only logged
\* (background.ts:421-427); the sample-rate fallback follows when the primary
\* error text also named the sample rate, unless this fetch threw
NoChannelResponse(t, r) ==
    /\ t \in chunkTasks /\ t.pc = "noChannel" /\ ~t.stalled
    /\ r \in Responses
    /\ IF r.kind # "throw" /\ t.alsoRate
       THEN Retry(t, r, "rate", FALSE, FallbackRateConfig)
       ELSE Conclude(t) /\ NoAppend(<<ResponseLog(t.pc, r)>>)
    /\ isRecording' = FlagAfterChunk
    /\ UNCHANGED <<chunkCount, recordingStartTime, currentTabId, audioBufferLen,
                   envVars, startTasks, chanVars, capVars, budget, sess>>

\* the response to the 44.1 kHz fallback (background.ts:452-490)
RateResponse(t, r) ==
    /\ t \in chunkTasks /\ t.pc = "rate" /\ ~t.stalled
    /\ r \in Responses
    /\ TakeResult(t, r)
    /\ isRecording' = FlagAfterChunk
    /\ UNCHANGED <<chunkCount, recordingStartTime, currentTabId, audioBufferLen,
                   envVars, startTasks, chanVars, capVars, budget, sess>>


(***************************************************************************)
(* Background message listener: messages from the capturer.                *)
(***************************************************************************)
BgMsg(type) ==
    [type |-> type, encoding |-> "", hasData |-> FALSE, size |-> 0,
     decodable |-> FALSE, vorbis |-> FALSE, made |-> 0]

\* the audioChunk message the capturer sends (part_001:707-714)
ChunkMsg(vorbis) ==
    [BgMsg("audioChunk") EXCEPT !.encoding = "WEBM_ORIGINAL", !.hasData = TRUE,
                                !.size = 1, !.decodable = TRUE, !.vorbis = vorbis]

\* (variant: the guards without the test of the encoding label)
ChunkAcceptedAnyLabel(m) == m.hasData /\ m.size > 0 /\ m.decodable

\* the guards of background.ts:733 and :756, and atob not throwing
ChunkAccepted(m) ==
    /\ m.encoding \in {"WEBM_ORIGINAL", "WEBM_OPUS", "ORIGINAL"}
    /\ m.hasData
    /\ m.size > 0
    /\ m.decodable

\* the console line of a chunk message that is dropped: the catch around atob
\* (background.ts:752-754, :774-776) or the final else (:777-783)
ChunkRejectLog(m) ==
    IF m.hasData /\ m.size > 0 /\ m.encoding = "WEBM_ORIGINAL"
    THEN Emit("log", "Failed to process WebM_ORIGINAL audio data")
    ELSE IF m.hasData /\ m.size > 0 /\ m.encoding \in {"WEBM_OPUS", "ORIGINAL"}
    THEN Emit("log", "Failed to process WebM audio data")
    ELSE Emit("log", "Received unknown or invalid audio chunk format")

\* audioBuffer.push / shift: only the last 3 blobs are kept
AudioBufferKeep == 3    \* background.ts:212

\* onMessage 'audioChunk': decode, take the timestamp, processWebMChunk()
\* up to the first await of processChunkWithContext()
OnAudioChunk(m) ==
    /\ IF ChunkAccepted(m)
       THEN /\ chunkCount' = chunkCount + 1
            /\ audioBufferLen' = IF audioBufferLen < AudioBufferKeep
                                 THEN audioBufferLen + 1 ELSE audioBufferLen
            /\ chunkTasks' = chunkTasks \cup
                 {[sess |-> sess, seq |-> chunkCount + 1,
                   timestamp |-> getRelativeTimestamp(recordingStartTime, now),
                   elapsed |-> IF recordingStartTime = 0 THEN 0
                               ELSE now - recordingStartTime,
                   vorbis |-> m.vorbis, pc |-> "key", alsoRate |-> FALSE,
                   fetches |-> 0, inFlightAtStop |-> FALSE, stalled |-> FALSE]}
            /\ out' = <<>>
       ELSE /\ UNCHANGED <<chunkCount, audioBufferLen, chunkTasks>>
            /\ out' = <<ChunkRejectLog(m)>>
    /\ UNCHANGED isRecording

\* onMessage 'recordingStarted': setRecordingState(true) and broadcast
OnRecordingStarted ==
    /\ isRecording' = TRUE
    /\ out' = <<RecordingStateEvent(TRUE)>>
    /\ UNCHANGED <<chunkCount, audioBufferLen, chunkTasks>>

\* onMessage 'recordingStopped': broadcast only
OnRecordingStopped ==
    /\ out' = <<RecordingStateEvent(FALSE)>>
    /\ UNCHANGED <<isRecording, chunkCount, audioBufferLen, chunkTasks>>

\* (variant: the handler forwards the error and leaves the flag alone)
OnErrorKeepsRecording == isRecording

\* setRecordingState(false) of the 'recordingError' handler (background.ts:794)
OnErrorSetsRecording == FALSE

\* onMessage 'recordingError': setRecordingState(false) and forward the error
OnRecordingError ==
    /\ isRecording' = OnErrorSetsRecording
    /\ out' = <<RecordingErrorEvent("capturer")>>
    /\ UNCHANGED <<chunkCount, audioBufferLen, chunkTasks>>

\* delivery of the oldest message of the capturer to the background listener
BgReceive ==
    /\ toBg # <<>>
    /\ toBg' = Tail(toBg)
    /\ LET m == Head(toBg)
       IN  CASE m.type = "audioChunk" -> OnAudioChunk(m)
             [] m.type = "recordingStarted" -> OnRecordingStarted
             [] m.type = "recordingStopped" -> OnRecordingStopped
             [] m.type = "recordingError" -> OnRecordingError
    /\ UNCHANGED <<transcriptionData, recordingStartTime, currentTabId, envVars,
                   startTasks, saveTasks, toTab, capVars, budget, sess, entryOrigin>>

\* onMessage 'contentScriptReady': currentTab = sender.tab.id (a page with the
\* content script finishes loading in another tab during a session)
ContentScriptReady(tab) ==
    /\ isRecording
    /\ currentTabId # tab
    /\ currentTabId' = tab
    /\ out' = <<>>
    /\ UNCHANGED <<isRecording, chunkCount, transcriptionData, recordingStartTime,
                   audioBufferLen, envVars, taskVars, chanVars, capVars, budget,
                   sess, entryOrigin>>


(***************************************************************************)
(* Capturer: the content script of CapTab (src/unnamed/part_001:542-854).  *)
(***************************************************************************)
\* stopScreenCapture(): stop a recording recorder (its last dataavailable is
\* still to come), release the stream, report recordingStopped
stopScreenCapture ==
    /\ IF mediaRecorder = "recording"
       THEN /\ mediaRecorder' = "null"
            /\ liveRecorders' = liveRecorders - 1
            /\ flushing' = flushing + 1
       ELSE UNCHANGED <<mediaRecorder, liveRecorders, flushing>>
    /\ audioStream' = FALSE
    /\ toBg' = Append(toBg, BgMsg("recordingStopped"))

\* content script onMessage: the oldest message sent with chrome.tabs.sendMessage
TabReceive ==
    /\ toTab # <<>>
    /\ toTab' = Tail(toTab)
    /\ LET m == Head(toTab)
       IN  CASE m.type = "startRecording" ->
                  /\ capPending' = capPending + 1
                  /\ stopSeen' = FALSE
                  /\ UNCHANGED <<mediaRecorder, audioStream, liveRecorders, flushing, toBg>>
             [] m.type = "stopRecording" ->
                  /\ stopScreenCapture
                  /\ stopSeen' = TRUE
                  /\ UNCHANGED capPending
             [] OTHER -> UNCHANGED <<capPending, mediaRecorder, audioStream,
                                     liveRecorders, flushing, stopSeen, toBg>>
    /\ out' = <<>>
    /\ UNCHANGED <<svcVars, envVars, taskVars, converting, budget, sess, entryOrigin>>

\* (variant: the stream is used without looking for an audio track)
AcquiredStartsAnyStream(outcome) == outcome # "denied"

\* getDisplayMedia resolved and `audioTracks.length === 0` is false
\* (part_001:626): the recorder is created and started
AcquiredStarts(outcome) == outcome = "granted"

\* the console line that tells what getDisplayMedia gave
AcquisitionLog(outcome) ==
    CASE outcome = "granted" -> Emit("log", "Audio tracks found: 1")
      [] outcome = "noAudio" -> Emit("log", "Audio tracks found: 0")
      [] OTHER -> Emit("log", "Failed to start screen capture")

\* startScreenCapture() after `await getDisplayMedia(...)`
CapAcquired(outcome) ==
    /\ capPending > 0
    /\ capPending' = capPending - 1
    /\ outcome \in {"granted", "noAudio", "denied"}
    /\ IF AcquiredStarts(outcome)
       THEN /\ mediaRecorder' = "recording"
            /\ liveRecorders' = liveRecorders + 1
            /\ audioStream' = TRUE
            /\ toBg' = Append(toBg, BgMsg("recordingStarted"))
       ELSE /\ toBg' = Append(toBg, BgMsg("recordingError"))
            /\ UNCHANGED <<mediaRecorder, liveRecorders, audioStream>>
    /\ out' = <<AcquisitionLog(outcome)>>
    /\ UNCHANGED <<svcVars, envVars, taskVars, toTab, flushing, converting, stopSeen,
                   budget, sess, entryOrigin>>

\* audioChunk messages the background does not accept: no encoding label
\* (part_000:100-105), a label of another build (part_001:152), no audioData,
\* size 0, audioData that atob rejects
MalformedChunks ==
    {[ChunkMsg(FALSE) EXCEPT !.encoding = ""],
     [ChunkMsg(FALSE) EXCEPT !.encoding = "LINEAR16"],
     [ChunkMsg(FALSE) EXCEPT !.hasData = FALSE],
     [ChunkMsg(FALSE) EXCEPT !.size = 0],
     [ChunkMsg(FALSE) EXCEPT !.decodable = FALSE]}

\* the audioChunk messages a data event may lead to
Shapes ==
    IF budget.shapes = "any"
    THEN {ChunkMsg(FALSE), [ChunkMsg(FALSE) EXCEPT !.encoding = "WEBM_OPUS"]}
            \cup MalformedChunks
    ELSE {ChunkMsg(FALSE)}

\* mediaRecorder.ondataavailable up to `await blobToBase64(event.data)`: a
\* timeslice of a live recorder (the clock has advanced by the timeslice), or
\* the last data of a stopped one; an empty blob is not converted
CapData(final, empty, shape) ==
    /\ IF final THEN flushing > 0 ELSE liveRecorders > 0
    /\ flushing' = IF final THEN flushing - 1 ELSE flushing
    /\ now' = IF final THEN now ELSE now + TimesliceMs
    /\ IF empty
       THEN /\ final
            /\ UNCHANGED <<converting, budget>>
       ELSE /\ budget.chunks > 0
            /\ shape \in Shapes
            /\ budget' = [budget EXCEPT !.chunks = @ - 1, !.made = @ + 1]
            /\ converting' = converting \cup {[shape EXCEPT !.made = budget.made + 1]}
    /\ out' = <<>>
    /\ UNCHANGED <<svcVars, apiKey, taskVars, chanVars, capPending, mediaRecorder,
                   audioStream, liveRecorders, stopSeen, sess, entryOrigin>>

\* ondataavailable after the conversion: the audioChunk message is sent
CapConverted(c) ==
    /\ c \in converting
    /\ converting' = converting \ {c}
    /\ toBg' = Append(toBg, c)
    /\ out' = <<>>
    /\ UNCHANGED <<svcVars, envVars, taskVars, toTab, capPending, mediaRecorder,
                   audioStream, liveRecorders, flushing, stopSeen, budget, sess,
                   entryOrigin>>

\* (variant: the listener reports the end and leaves the recorder running)
EndedKeepsRecorder ==
    /\ audioStream' = FALSE
    /\ toBg' = Append(toBg, BgMsg("recordingStopped"))
    /\ UNCHANGED <<mediaRecorder, liveRecorders, flushing>>

\* the listener of the audio tracks' 'ended' event (part_001:783-786)
EndedHandler == stopScreenCapture

\* the 'ended' event of a captured audio track (the user stops sharing)
CapTrackEnded ==
    /\ audioStream
    /\ EndedHandler
    /\ out' = <<>>
    /\ UNCHANGED <<svcVars, envVars, taskVars, toTab, capPending, converting,
                   stopSeen, budget, sess, entryOrigin>>

(***************************************************************************)
(* Environment.                                                            *)
(***************************************************************************)
\* the popup's key field: the stored key is cleared.  The key is read only
\* after the first await of startRecording and of processChunkWithContext, so
\* only a clearing that such a pending read will see is distinguished
ClearApiKey ==
    /\ apiKey
    /\ \E t \in startTasks \cup chunkTasks : t.pc = "key"
    /\ apiKey' = FALSE
    /\ out' = <<>>
    /\ UNCHANGED <<svcVars, now, taskVars, chanVars, capVars, budget, sess,
                   entryOrigin>>

Next ==
    \/ \E tab \in {CapTab, NoTab} : StartCmd(tab)
    \/ \E t \in startTasks : StartGotKey(t)
    \/ \E t \in startTasks, ok \in BOOLEAN : StartGotTab(t, ok)
    \/ \E t \in startTasks, ok \in BOOLEAN : StartPinged(t, ok)
    \/ StopCmd
    \/ \E i \in 1..Len(saveTasks), ok \in BOOLEAN : SaveDone(i, ok)
    \/ \E t \in chunkTasks : ChunkGotKey(t)
    \/ \E t \in chunkTasks, r \in Responses : PrimaryResponse(t, r)
    \/ \E t \in chunkTasks, r \in Responses : NoRateResponse(t, r)
    \/ \E t \in chunkTasks, r \in Responses : NoChannelResponse(t, r)
    \/ \E t \in chunkTasks, r \in Responses : RateResponse(t, r)
    \/ BgReceive
    \/ \E tab \in Tabs \ {CapTab} : ContentScriptReady(tab)
    \/ TabReceive
    \/ \E outcome \in {"granted", "noAudio", "denied"} : CapAcquired(outcome)
    \/ \E final \in BOOLEAN, empty \in BOOLEAN, shape \in Shapes :
          CapData(final, empty, shape)
    \/ \E c \in converting : CapConverted(c)
    \/ CapTrackEnded
    \/ ClearApiKey

Spec == Init /\ [][Next]_vars

\* two start commands, one chunk
InitStarts ==
    InitWith(Allow(MaxStarts + 1, MaxStops, MaxChunks - 1))

SpecStarts == InitStarts /\ [][Next]_vars

\* two stop commands (popup button and in-page indicator), one chunk
InitStops ==
    InitWith(Allow(MaxStarts, MaxStops + 1, MaxChunks - 1))

SpecStops == InitStops /\ [][Next]_vars

\* the entries of a session in which chunks 1..n were recognized one after the
\* other, one per timeslice
RECURSIVE SequentialEntries(_)
SequentialEntries(n) ==
    IF n = 0 THEN <<>>
    ELSE Append(SequentialEntries(n - 1),
                [timestamp |-> getRelativeTimestamp(T0, T0 + n * TimesliceMs),
                 text |-> <<"h", "i">>, language |-> "en-US", chunkNumber |-> n])

\* the recognition calls of chunks n+1..n+k, each waiting for the answer to
\* its primary request, which the recognizer does not give
StalledCalls(n, k) ==
    {[sess |-> 1, seq |-> i,
      timestamp |-> getRelativeTimestamp(T0, T0 + i * TimesliceMs),
      elapsed |-> i * TimesliceMs, vorbis |-> FALSE, pc |-> "primary",
      alsoRate |-> FALSE, fetches |-> 1, inFlightAtStop |-> FALSE,
      stalled |-> TRUE] : i \in (n + 1)..(n + k)}

\* a session in progress: n chunks arrived and were recognized in turn, k more
\* arrived and wait for the recognizer, the recorder is live
InitSession(n, k, b) ==
    /\ isRecording = TRUE
    /\ chunkCount = n + k
    /\ transcriptionData = SequentialEntries(n)
    /\ recordingStartTime = T0
    /\ currentTabId = CapTab
    /\ audioBufferLen = (IF n + k < AudioBufferKeep THEN n + k ELSE AudioBufferKeep)
    /\ apiKey = TRUE
    /\ now = T0 + (n + k) * TimesliceMs
    /\ startTasks = {}
    /\ chunkTasks = StalledCalls(n, k)
    /\ saveTasks = <<>>
    /\ toTab = <<>>
    /\ toBg = <<>>
    /\ capPending = 0
    /\ mediaRecorder = "recording"
    /\ audioStream = TRUE
    /\ liveRecorders = 1
    /\ flushing = 0
    /\ converting = {}
    /\ stopSeen = FALSE
    /\ budget = b
    /\ sess = 1
    /\ entryOrigin = [i \in 1..n |-> [sess |-> 1, seq |-> i, elapsed |-> i * TimesliceMs]]
    /\ out = <<>>

\* a session in progress with nothing in flight
InitMidSession(n, b) == InitSession(n, 0, b)

\* sessions one or two entries short of an auto-save
InitPeriodic ==
    \E n \in {AutoSaveEvery - 1, 2 * AutoSaveEvery - 1} :
        InitMidSession(n, Allow(MaxStarts, MaxStops, MaxChunks - 1))

SpecPeriodic == InitPeriodic /\ [][Next]_vars

\* the service from construction, with chunk messages of any shape
InitAnyShapes ==
    InitWith([Allow(MaxStarts, MaxStops, MaxChunks - 1) EXCEPT !.shapes = "any"])

SpecAnyShapes == InitAnyShapes /\ [][Next]_vars

\* a session whose first MaxInFlight chunks all wait for a recognizer that
\* has stopped answering
InitBurst == InitSession(0, MaxInFlight, Allow(MaxStarts, MaxStops, MaxChunks - 1))

\* getVideoTitle() always returns (chrome.tabs.get resolves or rejects, and
\* the rejection is caught), so a pending saveTranscriptionFile() goes on
SaveGoesOn == \E i \in 1..Len(saveTasks), ok \in BOOLEAN : SaveDone(i, ok)

SpecBurst == InitBurst /\ [][Next]_vars /\ WF_vars(SaveGoesOn)

TypeOK ==
    /\ isRecording \in BOOLEAN
    /\ chunkCount \in Nat
    /\ \A f \in {"starts", "stops", "chunks", "made", "finals"} : budget[f] >= 0
    /\ budget.shapes \in {"own", "any"}
    /\ stopSeen \in BOOLEAN
    /\ Len(transcriptionData) = Len(entryOrigin)
    /\ currentTabId \in Tabs \cup {NoTab}
    /\ liveRecorders \in Nat
    /\ flushing \in Nat


(***************************************************************************)
(* Properties.                                                             *)
(***************************************************************************)
Emitted(o, ch, type) == \E i \in 1..Len(o) : o[i].ch = ch /\ o[i].type = type

Count(o, ch, type) == Cardinality({i \in 1..Len(o) : o[i].ch = ch /\ o[i].type = type})

\* the step concludes or advances the recognition call t
Advances(t) ==
    /\ t \in chunkTasks
    /\ t \notin chunkTasks'
    /\ budget'.stops = budget.stops

\* the step is the last one of the startRecording() call t
Ends(t) == t \in startTasks /\ startTasks' = startTasks \ {t}

\* the step is the handling of a stop command
StopHandled == budget'.stops = budget.stops - 1

\* the step handles a message of the capturer of the given type
Handles(type) == toBg # <<>> /\ Head(toBg).type = type /\ toBg' = Tail(toBg)

\* C1: entries are appended by chunk sequence number, not completion order: of
\* two chunks of a session that both yield text, the earlier one's entry
\* comes first in transcriptionData
C1_EntriesInArrivalOrder ==
    \A i, j \in 1..Len(entryOrigin) :
        (i < j /\ entryOrigin[i].sess = entryOrigin[j].sess)
            => entryOrigin[i].seq < entryOrigin[j].seq

\* C2: the chunkNumber values of the entries are strictly increasing along
\* transcriptionData and are exactly the numbers of the chunks that produced text
C2_ChunkNumbersStrictlyIncreasing ==
    /\ \A i, j \in 1..Len(transcriptionData) :
          i < j => transcriptionData[i].chunkNumber < transcriptionData[j].chunkNumber
    /\ {transcriptionData[i].chunkNumber : i \in 1..Len(transcriptionData)}
         = {entryOrigin[i].seq : i \in 1..Len(entryOrigin)}

\* C3: every entry carries the chunk counter value and the session-elapsed time
\* of the arrival of its own chunk, whatever arrived before its recognition ended
C3_EntryTaggedWithItsChunk ==
    \A i \in 1..Len(transcriptionData) :
        /\ transcriptionData[i].chunkNumber = entryOrigin[i].seq
        /\ transcriptionData[i].timestamp
             = getRelativeTimestamp(T0, T0 + entryOrigin[i].elapsed)

\* C4: a recognition call that was in flight when stop() ended the session
\* appends no entry, emits no chunkProcessed and triggers no export
C4_InFlightAtStopIgnored ==
    [][\A t \in chunkTasks :
          (t.inFlightAtStop /\ Advances(t))
              => /\ transcriptionData' = transcriptionData
                 /\ ~Emitted(out', "runtime", "chunkProcessed")
                 /\ ~Emitted(out', "save", "none")]_vars

\* C5: a start command issued while an earlier start is still in progress is
\* rejected: its call never resets the session nor sends a capture start
C5_OverlappingStartRejected ==
    [][\A t \in startTasks :
          (t.overlap /\ Ends(t))
              => /\ transcriptionData' = transcriptionData
                 /\ chunkCount' = chunkCount
                 /\ recordingStartTime' = recordingStartTime
                 /\ toTab' = toTab
                 /\ ~Emitted(out', "tab", "startRecording")]_vars

\* C6: a start without a stored credential leaves the session Idle and
\* untouched, sends no capture start and emits an error event to the popup
C6_MissingCredentialReported ==
    [][\A t \in startTasks :
          (t.pc = "key" /\ Ends(t))
              => /\ ~isRecording'
                 /\ transcriptionData' = transcriptionData
                 /\ chunkCount' = chunkCount
                 /\ toTab' = toTab
                 /\ Emitted(out', "runtime", "recordingError")]_vars

\* C7: a start that fails validation (tab not eligible, content script not
\* reachable) leaves the flag false, reports an error and sends no capture
\* start; a failure reported by the capturer leaves the flag false and is
\* reported
C7_StartFailureEndsIdle ==
    [][/\ \A t \in startTasks :
             (t.pc \in {"tab", "ping"} /\ Ends(t) /\ sess' = sess)
                 => /\ ~isRecording'
                    /\ Emitted(out', "runtime", "recordingError")
                    /\ Emitted(out', "notify", "Recording Error")
                    /\ toTab' = toTab
                    /\ ~Emitted(out', "tab", "startRecording")
       /\ Handles("recordingError")
             => /\ ~isRecording'
                /\ Emitted(out', "runtime", "recordingError")]_vars

\* C7 witness: the capturer's failure has just been handled
C7_Witness ==
    /\ ~isRecording
    /\ sess > 0
    /\ \E i \in 1..Len(out) : out[i].type = "recordingError" /\ out[i].text = <<"capturer">>

\* C8: while a start is between the command and the capturer's
\* acknowledgment, the state query (the recording flag) is false
C8_ActiveOnlyAfterAck ==
    (\/ startTasks # {}
     \/ \E i \in 1..Len(toTab) : toTab[i].type = "startRecording"
     \/ capPending > 0
     \/ \E i \in 1..Len(toBg) : toBg[i].type = "recordingStarted")
        => ~isRecording

\* C9: a stop command handled while Idle changes nothing and emits no export,
\* no event and no message to the capturer
C9_StopWhenIdleIsNoop ==
    [][(StopHandled /\ ~isRecording)
          => /\ UNCHANGED <<svcVars, taskVars, chanVars>>
             /\ \A i \in 1..Len(out') :
                   out'[i].ch \notin {"runtime", "tab", "download", "save", "notify"}]_vars

\* C9 witness: a stop command has just been handled in Idle
C9_Witness ==
    /\ ~isRecording
    /\ Emitted(out, "log", "Not recording, returning early")
    /\ Emitted(out, "reply", "stopOk")

\* the "[timestamp]: text" lines of an artifact
EntryLinesOf(content) == SelectSeq(content, LAMBDA l : l # <<>> /\ l[1] = "[")

\* the lines the entries stand for, in order
LinesFor(data) ==
    [i \in 1..Len(data) |-> <<"[">> \o data[i].timestamp \o <<"]: ">> \o data[i].text]

\* C10: an append triggers an export exactly when it makes the number of
\* entries a positive multiple of 5, and then exactly one; stop() on an active
\* session triggers exactly one export, which holds all entries in order
C10_ExportsWhenDue ==
    [][/\ (Len(transcriptionData') = Len(transcriptionData) + 1)
            => /\ Count(out', "save", "none")
                    = (IF Len(transcriptionData') % AutoSaveEvery = 0 THEN 1 ELSE 0)
               /\ Len(saveTasks') = Len(saveTasks) + Count(out', "save", "none")
       /\ (StopHandled /\ isRecording)
            => /\ Count(out', "save", "stopCmd") = 1
               /\ Len(saveTasks') = Len(saveTasks) + 1
               /\ EntryLinesOf(saveTasks'[Len(saveTasks')].content)
                    = LinesFor(transcriptionData)
       /\ Len(saveTasks') > Len(saveTasks)
            => \/ Len(transcriptionData') = Len(transcriptionData) + 1
               \/ (StopHandled /\ isRecording)]_vars

\* C10 witness: the fifth (tenth) entry has just been appended and its export
\* is under way
C10_Witness ==
    /\ Len(transcriptionData) \in {AutoSaveEvery, 2 * AutoSaveEvery}
    /\ Emitted(out, "save", "none")
    /\ \E i \in 1..Len(saveTasks) :
          /\ saveTasks[i].cont = "none"
          /\ saveTasks[i].entries = Len(transcriptionData)
          /\ EntryLinesOf(saveTasks[i].content) = LinesFor(transcriptionData)

\* the recordingState events a step sends to the popup
Broadcasts(o) == SelectSeq(o, LAMBDA e : e.ch = "runtime" /\ e.type = "recordingState")

\* the recognizer requests a step sends
Requests(o) == SelectSeq(o, LAMBDA e : e.ch = "fetch")

\* C11: the recording flag never goes from true to false without the final
\* export of the session being entered by the same handler
C11_IdleOnlyWithFinalExport ==
    [][(isRecording /\ ~isRecording')
          => \E i \in 1..Len(out') : out'[i].ch = "save"]_vars

\* C12: a step that changes the recording flag broadcasts a recordingState
\* event (a stop command broadcasts it once its export has returned), and
\* every recordingState broadcast carries the value the flag has after the step
C12_BroadcastAgreesWithFlag ==
    [][/\ (isRecording' # isRecording)
            => (StopHandled \/ Broadcasts(out') # <<>>)
       /\ \A i \in 1..Len(Broadcasts(out')) :
             Broadcasts(out')[i].flag = isRecording']_vars

\* C13: when the capturer reports recordingStopped and no stop command was
\* given (the audio track ended), the recording flag is false afterwards
C13_CaptureEndDestroysSession ==
    [][(Handles("recordingStopped") /\ budget.stops = MaxStops)
          => ~isRecording']_vars

\* the part of the transcript the step found is still there
EntriesKept ==
    /\ Len(transcriptionData') >= Len(transcriptionData)
    /\ SubSeq(transcriptionData', 1, Len(transcriptionData)) = transcriptionData

\* the recognition call of t, as the step leaves it
After(t) == {u \in chunkTasks' : u.sess = t.sess /\ u.seq = t.seq}

\* the step handles a response to the primary request of t that is an error
\* whose text holds just the given complaints
PrimaryRejected(t, complaints) ==
    /\ t.pc = "primary"
    /\ Advances(t)
    /\ \E i \in 1..Len(out') :
          /\ out'[i].type = "Google Speech API error for WebM"
          /\ out'[i].text = complaints

\* C14: no step of a chunk's recognition, whatever the recognizer answers,
\* changes the recording flag, drops entries, or touches the capturer; the
\* flag goes from true to false only in a failing start, a stop command or
\* the handling of the capturer's error
C14_ChunkFailureKeepsSession ==
    [][/\ \A t \in chunkTasks :
             Advances(t)
                 => /\ isRecording' = isRecording
                    /\ EntriesKept
                    /\ UNCHANGED <<chunkCount, chanVars, capVars>>
                    /\ \A i \in 1..Len(out') : out'[i].ch # "tab"
       /\ (isRecording /\ ~isRecording')
             => \/ StopHandled
                \/ \E t \in startTasks : Ends(t)
                \/ Handles("recordingError")]_vars

\* C14 witness: a recognition has just thrown in a session that goes on
C14_Witness ==
    /\ isRecording
    /\ transcriptionData # <<>>
    /\ Emitted(out, "log", "Error processing WebM chunk")

\* C15: a primary response that is an error of another class than a rejected
\* parameter (rate limit, invalid credential) causes no further request and is
\* reported to the popup as an error event
C15_RateLimitSurfaced ==
    [][\A t \in chunkTasks :
          PrimaryRejected(t, <<>>)
              => /\ Requests(out') = <<>>
                 /\ Emitted(out', "runtime", "recordingError")]_vars

C17_AtMostThreeRequests ==
    [][\A t \in chunkTasks :
          (Advances(t) /\ Requests(out') # <<>>)
              => /\ Len(Requests(out')) = 1
                 /\ t.fetches + 1 <= 3
                 /\ \A u \in After(t) : u.fetches = t.fetches + 1
                 /\ (\E u \in After(t) : u.pc = "noChannel")
                       => Requests(out')[1].text[3] = "-"
                 /\ t.fetches = 2
                       => /\ t.pc = "noChannel"
                          /\ Requests(out')[1].text[2] # "-"
                          /\ Requests(out')[1].text[3] # "-"]_vars

\* C17 witness: a chunk whose third request is under way
C17_Witness == \E t \in chunkTasks : t.fetches = 3 /\ t.pc = "rate"

C19_FallbackDropsOnlyRejectedHint ==
    [][\A t \in chunkTasks :
          /\ (~t.vorbis /\ PrimaryRejected(t, <<"audio_channel_count">>))
                => /\ Len(Requests(out')) = 1
                   /\ Requests(out')[1].text = [PrimaryConfig EXCEPT ![3] = "-"]
          /\ (~t.vorbis /\ PrimaryRejected(t, <<"sample rate">>))
                => /\ Len(Requests(out')) = 1
                   /\ Requests(out')[1].text = [PrimaryConfig EXCEPT ![2] = "-"]]_vars

\* C20: an accepted chunk adds one to the chunk counter; an answer without
\* results or with blank text adds no entry and leaves the counter; every
\* entry has text that is not empty and is trimmed
C20_SilentChunkNoEntry ==
    [][/\ \A i \in 1..Len(transcriptionData') :
             /\ transcriptionData'[i].text # <<>>
             /\ Trim(transcriptionData'[i].text) = transcriptionData'[i].text
       /\ (Handles("audioChunk") /\ ChunkAccepted(Head(toBg)))
             => /\ chunkCount' = chunkCount + 1
                /\ transcriptionData' = transcriptionData
       /\ \A t \in chunkTasks :
             (Advances(t)
                /\ \E i \in 1..Len(out') :
                      out'[i].type \in {"No transcription results",
                                        "Empty transcription result",
                                        "No sample rate fallback response"})
                => /\ transcriptionData' = transcriptionData
                   /\ chunkCount' = chunkCount]_vars

\* C20 witness: the first chunk of a session was answered with blank text
C20_Witness ==
    /\ isRecording
    /\ chunkCount = 1
    /\ transcriptionData = <<>>
    /\ chunkTasks = {}
    /\ Emitted(out, "log", "Empty transcription result")


\* C21: a chunk message handled while the recording flag is false is not
\* accepted: the chunk counter does not move and no recognition call begins.
C21_IdleChunkNotAccepted ==
    [][(Handles("audioChunk") /\ ~isRecording)
        => (chunkCount' = chunkCount /\ chunkTasks' = chunkTasks)]_vars

\* the chunk message at the head of the queue is one of those the handler is
\* to drop: no or another encoding label, no audio data, a size that is not
\* positive, or audio data that does not decode
HeadIsMalformed ==
    /\ toBg # <<>>
    /\ Head(toBg).type = "audioChunk"
    /\ \/ Head(toBg).encoding \notin {"WEBM_ORIGINAL", "WEBM_OPUS", "ORIGINAL"}
       \/ ~Head(toBg).hasData
       \/ Head(toBg).size <= 0
       \/ ~Head(toBg).decodable

\* C22: handling a malformed chunk message changes neither the chunk counter,
\* nor the entries, nor the recording flag, and begins no recognition call;
\* the handler returns after writing its console line.
C22_MalformedChunkDropped ==
    [][(HeadIsMalformed /\ Handles("audioChunk"))
        => /\ chunkCount' = chunkCount
           /\ transcriptionData' = transcriptionData
           /\ isRecording' = isRecording
           /\ chunkTasks' = chunkTasks
           /\ audioBufferLen' = audioBufferLen
           /\ Len(out') = 1
           /\ out'[1].ch = "log"]_vars

\* a chunk message carrying the label of another build of the capturer was
\* dropped while the session went on
C22_Witness ==
    /\ Emitted(out, "log", "Received unknown or invalid audio chunk format")
    /\ isRecording
    /\ chunkCount = 0

\* C23: at most MaxInFlight recognition calls are in flight at any moment.
C23_InFlightCallsCapped == Cardinality(chunkTasks) <= MaxInFlight

C25_NoAudioTrackFailsStart ==
    [][Emitted(out', "log", "Audio tracks found: 0")
        => /\ toBg' = Append(toBg, BgMsg("recordingError"))
           /\ mediaRecorder' = mediaRecorder
           /\ liveRecorders' = liveRecorders
           /\ audioStream' = audioStream
           /\ flushing' = flushing
           /\ converting' = converting]_vars

\* the start failed for want of an audio track and nothing records
C25_Witness ==
    /\ Emitted(out, "log", "Audio tracks found: 0")
    /\ liveRecorders = 0
    /\ mediaRecorder = "null"
    /\ toBg # <<>>
    /\ toBg[Len(toBg)].type = "recordingError"

\* C26: from the handling of a stop until the next start command reaches the
\* capturer, no recorder records and no stream is held.
C26_NothingLiveAfterStop == stopSeen => (liveRecorders = 0 /\ ~audioStream)

\* the step is the capturer's handling of a stopRecording message
CapturerHandlesStop ==
    toTab # <<>> /\ Head(toTab).type = "stopRecording" /\ toTab' = Tail(toTab)

\* C27: a stop handled by a capturer that is not capturing changes nothing in
\* the capturer and sends nothing to the background.
C27_StopWhenNotCapturingIsNoop ==
    [][(CapturerHandlesStop /\ mediaRecorder # "recording" /\ ~audioStream)
        => (toBg' = toBg /\ UNCHANGED <<capPending, mediaRecorder, audioStream,
                                        liveRecorders, flushing, converting>>)]_vars

\* C28: the end of a captured track does what a stop message does: a
\* recording recorder is stopped and dropped (its last data still to come),
\* the stream is released and recordingStopped is sent.
C28_TrackEndIsStop ==
    [][(audioStream /\ ~audioStream' /\ toTab' = toTab)
        => /\ toBg' = Append(toBg, BgMsg("recordingStopped"))
           /\ IF mediaRecorder = "recording"
              THEN /\ mediaRecorder' = "null"
                   /\ liveRecorders' = liveRecorders - 1
                   /\ flushing' = flushing + 1
              ELSE UNCHANGED <<mediaRecorder, liveRecorders, flushing>>]_vars

\* a track has ended with no stop command issued: the recorder was stopped
\* and recordingStopped is on its way
C28_Witness ==
    /\ budget.stops = MaxStops
    /\ ~audioStream
    /\ mediaRecorder = "null"
    /\ flushing > 0
    /\ \E i \in 1..Len(toBg) : toBg[i].type = "recordingStopped"

\* C29: the chunk messages on their way to the background are in the order
\* in which the recorder produced their data.
C29_ChunksSentInProductionOrder ==
    \A i, j \in 1..Len(toBg) :
        (i < j /\ toBg[i].type = "audioChunk" /\ toBg[j].type = "audioChunk")
            => toBg[i].made < toBg[j].made

\* line is one of the lines of content
HasLine(content, line) == \E i \in 1..Len(content) : content[i] = line

\* C30: a text artifact is never empty, and the artifact of a session without
\* entries is the header, then the placeholder text, and no transcript
\* section; this holds for the artifact built and for the one downloaded.
C30_EmptySessionHasPlaceholder ==
    LET Good(content, entries) ==
            /\ content # <<>>
            /\ content[1] = <<"YouTube Video Transcription">>
            /\ entries = 0 =>
                  /\ Len(content) > Len(TranscriptHeader(<<>>, 0, 0))
                  /\ HasLine(content, <<"No transcription data captured.">>)
                  /\ content[Len(content)] # <<>>
                  /\ ~HasLine(content, <<"--- TRANSCRIPT ---">>)
    IN  /\ \A i \in 1..Len(saveTasks) :
              Good(saveTasks[i].content, saveTasks[i].entries)
        /\ \A i \in 1..Len(out) :
              out[i].ch = "download" => Good(out[i].body, out[i].num)

\* the artifact of a session without entries was downloaded
C30_Witness ==
    \E i \in 1..Len(out) : out[i].ch = "download" /\ out[i].num = 0


\* the lines of an artifact before the first entry line: the header, the rule
\* and the heading of the transcript section
LinesBeforeEntries == Len(TranscriptHeader(<<>>, 0, 0)) + 2

\* C31: the artifact built for a session with entries is fixed by the entry
\* sequence: the header states the number of entries, and after the heading
\* come, entry by entry in sequence order, the line "[timestamp]: text" and a
\* blank line, and nothing else.
C31_ArtifactFollowsEntries ==
    [][(Len(saveTasks') = Len(saveTasks) + 1 /\ Len(transcriptionData') > 0)
        => LET c == saveTasks'[Len(saveTasks')].content
               data == transcriptionData'
           IN  /\ Len(c) = LinesBeforeEntries + 2 * Len(data)
               /\ c[3] = <<"Total Segments: ">> \o ToStr(Len(data))
               /\ c[LinesBeforeEntries - 1] = <<"--- TRANSCRIPT ---">>
               /\ \A k \in 1..Len(data) :
                     /\ c[LinesBeforeEntries + 2 * k - 1]
                          = <<"[">> \o data[k].timestamp \o <<"]: ">> \o data[k].text
                     /\ c[LinesBeforeEntries + 2 * k] = <<>>]_vars

\* the artifact of a session with AutoSaveEvery entries is being saved
C31_Witness ==
    \E i \in 1..Len(saveTasks) :
        /\ saveTasks[i].entries = AutoSaveEvery
        /\ Len(saveTasks[i].content) = LinesBeforeEntries + 2 * AutoSaveEvery
        /\ Len(transcriptionData) = AutoSaveEvery


\* C32: a download that throws is logged and nothing more: that step sends
\* no fileSaved, downloads nothing and enters no other save, and leaves the
\* entries, the chunk counter and the recording flag as they were; and every
\* save entered, before or after, is built from all the entries.
C32_FailedDownloadOnlyLogged ==
    [][/\ Emitted(out', "log", "Failed to download file")
            => /\ ~Emitted(out', "runtime", "fileSaved")
               /\ \A i \in 1..Len(out') : out'[i].ch \notin {"download", "save"}
               /\ Len(saveTasks') = Len(saveTasks) - 1
               /\ transcriptionData' = transcriptionData
               /\ chunkCount' = chunkCount
               /\ isRecording' = isRecording
       /\ Len(saveTasks') = Len(saveTasks) + 1
            => /\ saveTasks'[Len(saveTasks')].entries = Len(transcriptionData')
               /\ EntryLinesOf(saveTasks'[Len(saveTasks')].content)
                    = LinesFor(transcriptionData')]_vars

\* the download of a periodic save has failed and the session goes on with
\* all its entries
C32_Witness ==
    /\ Emitted(out, "log", "Failed to download file")
    /\ ~Emitted(out, "notify", "Recording Stopped")
    /\ isRecording
    /\ Len(transcriptionData) >= AutoSaveEvery


\* C33: entries do not leak across sessions: a recognition call that was in
\* flight when its session was stopped, and that goes on after a later start
\* has reset the session, appends nothing to transcriptionData.
C33_NoEntryFromEarlierSession ==
    [][\A t \in chunkTasks :
          (t.inFlightAtStop /\ t.sess < sess /\ Advances(t))
              => transcriptionData' = transcriptionData]_vars


\* C34: no chunk has more than one entry, there are never more entries than
\* chunks counted, and every entry's chunkNumber lies between 1 and the chunk
\* counter.
C34_EntriesBoundedByChunkCount ==
    /\ \A i, j \in 1..Len(entryOrigin) :
          (entryOrigin[i].sess = entryOrigin[j].sess
             /\ entryOrigin[i].seq = entryOrigin[j].seq) => i = j
    /\ Len(transcriptionData) <= chunkCount
    /\ \A i \in 1..Len(transcriptionData) :
          /\ transcriptionData[i].chunkNumber >= 1
          /\ transcriptionData[i].chunkNumber <= chunkCount


\* the step appends one entry with the given transcript and announces it
AppendsEntryWith(text) ==
    /\ Len(transcriptionData') = Len(transcriptionData) + 1
    /\ transcriptionData'[Len(transcriptionData')].text = Trim(text)
    /\ Count(out', "runtime", "chunkProcessed") = 1

\* C35: a successful response that carries transcript text, to whichever
\* request of the chunk, is never just logged: the step that receives it
\* appends one entry with that text and sends chunkProcessed.
C35_SuccessfulResultNeverDiscarded ==
    [][\A i \in 1..Len(out') :
          (out'[i].ch = "log"
             /\ out'[i].type \in {"Retry response", "Fallback response",
                                  "No sample rate fallback response",
                                  "Empty transcription result"}
             /\ HasText(out'[i].text))
              => AppendsEntryWith(out'[i].text)]_vars


\* C36: while the session is active and no startRecording call is under way,
\* no step changes the active-tab identifier.
C36_ActiveTabFixedDuringSession ==
    [][(isRecording /\ isRecording' /\ startTasks = {})
        => currentTabId' = currentTabId]_vars


\* C37: the recording flag becomes true only in the step of a start that
\* passed validation; a recordingStarted message handled while the flag is
\* false (after a stop, after a failed start, or with no start) leaves it
\* false.
C37_FlagOnlyFromValidatedStart ==
    [][(~isRecording /\ isRecording')
        => (/\ ~Handles("recordingStarted")
            /\ \E t \in startTasks : t.pc = "ping" /\ Ends(t)
            /\ Emitted(out', "notify", "Recording Started"))]_vars


\* C38: of the stop commands handled for the one session that was started,
\* one goes past the early return: there is one final export and one stop
\* request to the capturer; a stop command handled after it sees the flag
\* false and does nothing.
C38_OneFinalExportPerSession ==
    /\ budget.finals <= 1
    /\ Cardinality({i \in 1..Len(toTab) : toTab[i].type = "stopRecording"}) <= 1
    /\ Cardinality({i \in 1..Len(saveTasks) : saveTasks[i].cont = "stopCmd"}) <= 1


\* C39: the reply {success: true, isRecording: true} is truthful: every
\* startRecording() call under way was answered so when it began, hence each
\* of them ends with the session active ("Recording Started"), never with
\* the key missing, the page ineligible or the capturer unreachable.
C39_StartReplyTruthful ==
    [][\A t \in startTasks :
          Ends(t) => (isRecording' /\ Emitted(out', "notify", "Recording Started"))]_vars

==============================================================================
